---- MODULE Spec2Model ----
(***************************************************************************)
(* Model of the task-list screen of My-Tasks-App, src/app/(tabs)/index.tsx *)
(*                                                                         *)
(* The component keeps its state in React hooks.  Every handler is a       *)
(* closure over the state of the render in which it was created, and the   *)
(* async handlers give up control at each await; their continuations keep  *)
(* using the values captured at the call.  A handler in flight is a frame: *)
(* its captured values and the await it is suspended at.                   *)
(*                                                                         *)
(* Handlers are modelled as operations of the controller: undoDelete and   *)
(* addOrUpdateTask may be called in any state (their own guards at lines   *)
(* 81 and 146 decide what happens), toggleComplete, deleteTask and         *)
(* startEdit are called on the tasks the list shows.                       *)
(***************************************************************************)
EXTENDS Integers, Sequences, FiniteSets, TLC

VARIABLES
    tasks,            \* useState<Task[]>, line 29
    taskText,         \* line 28, a sequence of characters
    priority,         \* line 30
    reminderSeconds,  \* line 31
    editingId,        \* line 32, Null when not editing
    deletedTask,      \* line 33, <<>> for null, <<t>> for a held task
    undoTimer,        \* useRef, line 34: id of the last timer, Null at first
    sortOption,       \* line 35
    filterPriority,   \* line 36
    storage,          \* AsyncStorage key 'tasks': <<>> absent, <<json>> present
    storeQueue,       \* AsyncStorage requests not yet served, oldest first
    scheduled,        \* handles scheduled in the notification scheduler, not cancelled
    nextHandle,       \* next handle the scheduler returns
    timers,           \* setTimeout timers outstanding
    now,              \* Date.now()
    frames,           \* handlers suspended at an await
    alertMsg,         \* last alert() shown, "" for none
    hist,             \* history: the last two operations called
    anyRejected,      \* history: some handler ended by a rejected await
    undoWindow,       \* history: where the undo window of the latest delete stands
    lastDelete,       \* history: frame of the delete that last removed a task
    events            \* history: user events so far

vars == <<tasks, taskText, priority, reminderSeconds, editingId, deletedTask,
          undoTimer, sortOption, filterPriority, storage, storeQueue, scheduled,
          nextHandle, timers, now, frames, alertMsg, hist, anyRejected,
          undoWindow, lastDelete, events>>

formVars == <<taskText, priority, reminderSeconds, editingId>>
viewVars == <<sortOption, filterPriority>>
notifVars == <<scheduled, nextHandle>>
timerVars == <<undoTimer, timers>>
storeVars == <<storage, storeQueue>>

----------------------------------------------------------------------------
(* Bounds *)

MaxInFlight == 2      \* handlers suspended at the same time
MaxEvents == 3        \* user events (presses, edits of the form) in one run

(* Program constants *)

DefaultReminder == 300
UndoDelayMs == 5000

Null == 0             \* null id / null timer handle
Undefined == 0        \* notificationId absent

Priorities == {"High", "Medium", "Low"}
SortOptions == {"priority", "completed", "reminder"}
Filters == {"All"} \cup Priorities

(* Inputs of the form *)
Texts == { <<>>, <<" ">>, <<" ", "b">> }
ReminderInputs == {DefaultReminder, 10}

----------------------------------------------------------------------------
(* Pure helpers *)

RECURSIVE TrimStart(_)
TrimStart(s) ==
    IF s = <<>> THEN s
    ELSE IF Head(s) = " " THEN TrimStart(Tail(s)) ELSE s

RECURSIVE TrimEnd(_)
TrimEnd(s) ==
    IF s = <<>> THEN s
    ELSE IF s[Len(s)] = " " THEN TrimEnd(SubSeq(s, 1, Len(s) - 1)) ELSE s

Trim(s) == TrimEnd(TrimStart(s))

(* JSON.stringify leaves out a property whose value is undefined. *)
StringifyTask(t) ==
    IF t.notificationId = Undefined
    THEN [id |-> t.id, text |-> t.text, priority |-> t.priority,
          completed |-> t.completed, reminderSeconds |-> t.reminderSeconds]
    ELSE t

Stringify(list) == [i \in 1..Len(list) |-> StringifyTask(list[i])]

(* Reading a property the parsed object lacks gives undefined. *)
ParseTask(j) ==
    IF "notificationId" \in DOMAIN j THEN j
    ELSE [id |-> j.id, text |-> j.text, priority |-> j.priority,
          completed |-> j.completed, reminderSeconds |-> j.reminderSeconds,
          notificationId |-> Undefined]

Parse(json) == [i \in 1..Len(json) |-> ParseTask(json[i])]

Ids(list) == {list[i].id : i \in 1..Len(list)}

Find(list, taskId) ==
    IF taskId \in Ids(list)
    THEN <<list[CHOOSE i \in 1..Len(list) :
                  /\ list[i].id = taskId
                  /\ \A j \in 1..(i - 1) : list[j].id # taskId]>>
    ELSE <<>>

FilterOut(list, taskId) == SelectSeq(list, LAMBDA t : t.id # taskId)

----------------------------------------------------------------------------
(* State after construction: the hooks hold their initial values (lines    *)
(* 28-36) and the mount effect (lines 40-48) has called loadTasks, which   *)
(* is suspended at its getItem.  The store is either empty (first run) or  *)
(* holds the list an earlier session wrote.                                *)

StartNow == 3         \* the clock at mount, later than every stored id

(* the list of the earlier session, newest first: a task whose schedule    *)
(* request had failed, and a task whose reminder is scheduled              *)
StoredList ==
    << [id |-> 2, text |-> <<"c">>, priority |-> "Low", completed |-> FALSE,
        reminderSeconds |-> 10, notificationId |-> Undefined],
       [id |-> 1, text |-> <<"a">>, priority |-> "Medium", completed |-> FALSE,
        reminderSeconds |-> DefaultReminder, notificationId |-> 1] >>

Frame(fid, op, pc, id, list, newTask, json) ==
    [fid |-> fid, op |-> op, pc |-> pc, id |-> id, tasks |-> list,
     task |-> newTask, json |-> json]

LoadFrame == Frame(1, "loadTasks", "getItem", Null, <<>>, <<>>, <<>>)

Init ==
    /\ tasks = <<>>
    /\ taskText = <<>>
    /\ priority = "Medium"
    /\ reminderSeconds = DefaultReminder
    /\ editingId = Null
    /\ deletedTask = <<>>
    /\ undoTimer = Null
    /\ sortOption = "priority"
    /\ filterPriority = "All"
    /\ \E stored \in BOOLEAN :
          /\ storage = IF stored THEN <<Stringify(StoredList)>> ELSE <<>>
          /\ scheduled = IF stored THEN {StoredList[2].notificationId} ELSE {}
    /\ storeQueue = <<LoadFrame.fid>>
    /\ nextHandle = StoredList[2].notificationId + 1
    /\ timers = {}
    /\ now = StartNow
    /\ frames = {LoadFrame}
    /\ alertMsg = ""
    /\ hist = <<>>
    /\ anyRejected = FALSE
    /\ undoWindow = "none"
    /\ lastDelete = Null
    /\ events = 0

----------------------------------------------------------------------------
(* Bookkeeping shared by the actions *)

FrameIds == {f.fid : f \in frames}
FreshFid == CHOOSE n \in 1..MaxInFlight : n \notin FrameIds
CanCall == Cardinality(frames) < MaxInFlight

LastOne(h) == IF Len(h) = 0 THEN h ELSE <<h[Len(h)]>>
UserEvent ==
    /\ events < MaxEvents
    /\ events' = events + 1
Called(op, id) ==
    /\ UserEvent
    /\ hist' = LastOne(hist) \o
                <<[op |-> op, id |-> id, pre |-> tasks, held |-> deletedTask,
                   alone |-> frames = {}]>>
Event(op) ==
    hist' = LastOne(hist) \o
                <<[op |-> op, id |-> Null, pre |-> tasks, held |-> deletedTask,
                   alone |-> frames = {}]>>

(* saveTasks, lines 55-57: the list is serialised at the call and the      *)
(* setItem request joins the store's queue; the caller awaits it.          *)
SaveTasks(fid, op, id, newTasks) ==
    /\ frames' = {f \in frames : f.fid # fid}
                   \cup {Frame(fid, op, "setItem", id, <<>>, <<>>, Stringify(newTasks))}
    /\ storeQueue' = Append(storeQueue, fid)

(* The store serves its requests in order.  A setItem either writes the    *)
(* value and resolves, or fails and the awaiting handler ends there.       *)
SetItemServed(f, ok) ==
    /\ storeQueue # <<>>
    /\ Head(storeQueue) = f.fid
    /\ f.pc = "setItem"
    /\ storeQueue' = Tail(storeQueue)
    /\ storage' = IF ok THEN <<f.json>> ELSE storage
    /\ frames' = frames \ {f}
    /\ anyRejected' = (anyRejected \/ ~ok)

----------------------------------------------------------------------------
(* loadTasks, lines 50-53: the getItem resolves *)

LoadTasks ==
    \E f \in frames :
        /\ f.op = "loadTasks"
        /\ storeQueue # <<>>
        /\ Head(storeQueue) = f.fid
        /\ storeQueue' = Tail(storeQueue)
        /\ frames' = frames \ {f}
        /\ tasks' = IF storage # <<>> THEN Parse(storage[1]) ELSE tasks
        /\ UNCHANGED <<formVars, viewVars, notifVars, timerVars, deletedTask,
                       storage, now, alertMsg, hist, anyRejected, undoWindow,
                       lastDelete, events>>

----------------------------------------------------------------------------
(* The form, lines 185-225, and startEdit, lines 155-160 *)

SetTaskText ==
    \E v \in Texts :
        /\ v # taskText
        /\ taskText' = v
        /\ UserEvent
        /\ UNCHANGED <<tasks, priority, reminderSeconds, editingId, deletedTask,
                       viewVars, storeVars, notifVars, timerVars, now, frames,
                       alertMsg, hist, anyRejected, undoWindow, lastDelete>>

SetPriority ==
    \E p \in Priorities :
        /\ p # priority
        /\ priority' = p
        /\ UserEvent
        /\ UNCHANGED <<tasks, taskText, reminderSeconds, editingId, deletedTask,
                       viewVars, storeVars, notifVars, timerVars, now, frames,
                       alertMsg, hist, anyRejected, undoWindow, lastDelete>>

SetReminderSeconds ==
    \E v \in ReminderInputs :
        /\ v # reminderSeconds
        /\ reminderSeconds' = v
        /\ UserEvent
        /\ UNCHANGED <<tasks, taskText, priority, editingId, deletedTask,
                       viewVars, storeVars, notifVars, timerVars, now, frames,
                       alertMsg, hist, anyRejected, undoWindow, lastDelete>>

StartEdit ==
    \E i \in 1..Len(tasks) :
        /\ editingId' = tasks[i].id
        /\ taskText' = tasks[i].text
        /\ priority' = tasks[i].priority
        /\ reminderSeconds' = tasks[i].reminderSeconds
        /\ UserEvent
        /\ UNCHANGED <<tasks, deletedTask, viewVars, storeVars, notifVars,
                       timerVars, now, frames, alertMsg, hist, anyRejected,
                       undoWindow, lastDelete>>

----------------------------------------------------------------------------
(* addOrUpdateTask, lines 80-113 *)

EmptyTextAlert == "Task cannot be empty"

UpdatedTasks(list, id, text, prio, secs) ==
    [i \in 1..Len(list) |->
        IF list[i].id = id
        THEN [list[i] EXCEPT !.text = text, !.priority = prio,
                             !.reminderSeconds = secs]
        ELSE list[i]]

NewTask(id, text, prio, secs) ==
    [id |-> id, text |-> Trim(text), priority |-> prio, completed |-> FALSE,
     reminderSeconds |-> secs, notificationId |-> Undefined]

(* line 81: !taskText.trim() *)
IsEmptyText_NoTrim(text) == text = <<>>
IsEmptyText(text) == Trim(text) = <<>>

(* The call runs to its first await: the rejection of an empty text, the   *)
(* whole edit up to the setItem, or the build of the new task up to the    *)
(* schedule request.  Two calls are at least a clock tick apart.           *)
AddOrUpdateTask ==
    /\ Called("addOrUpdateTask", editingId)
    /\ IF IsEmptyText(taskText)
       THEN /\ alertMsg' = EmptyTextAlert
            /\ UNCHANGED <<tasks, formVars, deletedTask, viewVars, storeVars,
                           notifVars, timerVars, now, frames, anyRejected,
                           undoWindow, lastDelete>>
       ELSE IF editingId # Null
       THEN /\ CanCall
            /\ LET updatedTasks == UpdatedTasks(tasks, editingId, taskText,
                                                priority, reminderSeconds)
               IN  /\ tasks' = updatedTasks
                   /\ SaveTasks(FreshFid, "update", editingId, updatedTasks)
            /\ UNCHANGED <<formVars, deletedTask, viewVars, storage, notifVars,
                           timerVars, now, alertMsg, anyRejected, undoWindow,
                           lastDelete>>
       ELSE /\ CanCall
            /\ frames' = frames \cup
                  {Frame(FreshFid, "create", "scheduleNotification", Null, tasks,
                         <<NewTask(now, taskText, priority, reminderSeconds)>>,
                         <<>>)}
            /\ now' = now + 1
            /\ UNCHANGED <<tasks, formVars, deletedTask, viewVars, storeVars,
                           notifVars, timerVars, alertMsg, anyRejected,
                           undoWindow, lastDelete>>

ScheduleNotification_Rethrows ==
    \E f \in frames, ok \in BOOLEAN :
        /\ f.op = "create"
        /\ f.pc = "scheduleNotification"
        /\ IF ok
           THEN LET newTask == [f.task[1] EXCEPT !.notificationId = nextHandle]
                    updated == <<newTask>> \o f.tasks
                IN  /\ scheduled' = scheduled \cup {nextHandle}
                    /\ nextHandle' = nextHandle + 1
                    /\ tasks' = updated
                    /\ SaveTasks(f.fid, "create", Null, updated)
                    /\ UNCHANGED anyRejected
           ELSE /\ frames' = frames \ {f}
                /\ anyRejected' = TRUE
                /\ UNCHANGED <<scheduled, nextHandle, tasks, storeQueue>>
        /\ UNCHANGED <<formVars, deletedTask, viewVars, storage, timerVars, now,
                       alertMsg, hist, undoWindow, lastDelete, events>>

(* scheduleNotification, lines 59-78, resolves: with a fresh handle, or    *)
(* with undefined after a caught failure.  Lines 104-108 follow.           *)
ScheduleNotification ==
    \E f \in frames, ok \in BOOLEAN :
        /\ f.op = "create"
        /\ f.pc = "scheduleNotification"
        /\ LET notificationId == IF ok THEN nextHandle ELSE Undefined
               newTask == [f.task[1] EXCEPT !.notificationId = notificationId]
               updated == <<newTask>> \o f.tasks
           IN  /\ scheduled' = IF ok THEN scheduled \cup {nextHandle} ELSE scheduled
               /\ nextHandle' = IF ok THEN nextHandle + 1 ELSE nextHandle
               /\ tasks' = updated
               /\ SaveTasks(f.fid, "create", Null, updated)
        /\ UNCHANGED <<formVars, deletedTask, viewVars, storage, timerVars, now,
                       alertMsg, hist, anyRejected, undoWindow, lastDelete,
                       events>>

(* The setItem of lines 93 or 108 is served; lines 94 and 111-112 follow.  *)
AddOrUpdateTaskSaved ==
    \E f \in frames, ok \in BOOLEAN :
        /\ f.op \in {"create", "update"}
        /\ SetItemServed(f, ok)
        /\ IF ok
           THEN /\ editingId' = IF f.op = "update" THEN Null ELSE editingId
                /\ taskText' = <<>>
                /\ reminderSeconds' = DefaultReminder
                /\ UNCHANGED priority
           ELSE UNCHANGED formVars
        /\ UNCHANGED <<tasks, deletedTask, viewVars, notifVars, timerVars, now,
                       alertMsg, hist, undoWindow, lastDelete, events>>

----------------------------------------------------------------------------
(* toggleComplete, lines 115-129 *)

Toggled_KeepsHandle(list, taskId) ==
    [i \in 1..Len(list) |->
        IF list[i].id = taskId
        THEN [list[i] EXCEPT !.completed = ~list[i].completed]
        ELSE list[i]]

Toggled(list, taskId) ==
    [i \in 1..Len(list) |->
        IF list[i].id = taskId
        THEN [list[i] EXCEPT !.completed = ~list[i].completed,
                             !.notificationId = Undefined]
        ELSE list[i]]

(* handles the map of lines 117-125 asks the scheduler to cancel *)
ToCancel(list, taskId) ==
    {list[i].notificationId : i \in
        {j \in 1..Len(list) : /\ list[j].id = taskId
                              /\ ~list[j].completed
                              /\ list[j].notificationId # Undefined}}

ToggleComplete ==
    \E taskId \in Ids(tasks) :
        /\ CanCall
        /\ Called("toggleComplete", taskId)
        /\ IF ToCancel(tasks, taskId) # {}
           THEN /\ frames' = frames \cup
                      {Frame(FreshFid, "toggleComplete", "cancel", taskId, tasks,
                             <<>>, <<>>)}
                /\ UNCHANGED <<tasks, storeQueue>>
           ELSE /\ tasks' = Toggled(tasks, taskId)
                /\ SaveTasks(FreshFid, "toggleComplete", taskId,
                             Toggled(tasks, taskId))
        /\ UNCHANGED <<formVars, deletedTask, viewVars, storage, notifVars,
                       timerVars, now, alertMsg, anyRejected, undoWindow,
                       lastDelete>>

(* The cancel of line 120 resolves, and lines 122-128 follow, or it        *)
(* rejects, and so do Promise.all and the handler.                         *)
ToggleCompleteCancelled ==
    \E f \in frames, ok \in BOOLEAN :
        /\ f.op = "toggleComplete"
        /\ f.pc = "cancel"
        /\ IF ok
           THEN /\ scheduled' = scheduled \ ToCancel(f.tasks, f.id)
                /\ tasks' = Toggled(f.tasks, f.id)
                /\ SaveTasks(f.fid, "toggleComplete", f.id, Toggled(f.tasks, f.id))
                /\ UNCHANGED anyRejected
           ELSE /\ frames' = frames \ {f}
                /\ anyRejected' = TRUE
                /\ UNCHANGED <<scheduled, tasks, storeQueue>>
        /\ UNCHANGED <<formVars, deletedTask, viewVars, storage, nextHandle,
                       timerVars, now, alertMsg, hist, undoWindow, lastDelete, events>>

ToggleCompleteSaved ==
    \E f \in frames, ok \in BOOLEAN :
        /\ f.op = "toggleComplete"
        /\ SetItemServed(f, ok)
        /\ UNCHANGED <<tasks, formVars, deletedTask, viewVars, notifVars,
                       timerVars, now, alertMsg, hist, undoWindow, lastDelete, events>>

----------------------------------------------------------------------------
(* deleteTask, lines 131-143 *)

(* lines 137-140: the task moves to the holder, the list loses it *)
DeleteEffect(fid, list, taskId, taskToDelete) ==
    /\ deletedTask' = taskToDelete
    /\ tasks' = FilterOut(list, taskId)
    /\ SaveTasks(fid, "deleteTask", taskId, FilterOut(list, taskId))
    /\ undoWindow' = "pending"
    /\ lastDelete' = fid

DeleteTask ==
    \E taskId \in Ids(tasks) :
        /\ CanCall
        /\ Called("deleteTask", taskId)
        /\ LET taskToDelete == Find(tasks, taskId)
           IN  IF taskToDelete = <<>>
               THEN UNCHANGED <<tasks, deletedTask, frames, storeQueue,
                                undoWindow, lastDelete>>
               ELSE IF taskToDelete[1].notificationId # Undefined
               THEN /\ frames' = frames \cup
                          {Frame(FreshFid, "deleteTask", "cancel", taskId, tasks,
                                 taskToDelete, <<>>)}
                    /\ UNCHANGED <<tasks, deletedTask, storeQueue, undoWindow,
                                   lastDelete>>
               ELSE DeleteEffect(FreshFid, tasks, taskId, taskToDelete)
        /\ UNCHANGED <<formVars, viewVars, storage, notifVars, timerVars, now,
                       alertMsg, anyRejected>>

(* The cancel of line 135 resolves, and lines 137-140 follow, or it        *)
(* rejects and the handler ends.                                           *)
DeleteTaskCancelled ==
    \E f \in frames, ok \in BOOLEAN :
        /\ f.op = "deleteTask"
        /\ f.pc = "cancel"
        /\ IF ok
           THEN /\ scheduled' = scheduled \ {f.task[1].notificationId}
                /\ DeleteEffect(f.fid, f.tasks, f.id, f.task)
                /\ UNCHANGED anyRejected
           ELSE /\ frames' = frames \ {f}
                /\ anyRejected' = TRUE
                /\ UNCHANGED <<scheduled, tasks, deletedTask, storeQueue,
                               undoWindow, lastDelete>>
        /\ UNCHANGED <<formVars, viewVars, storage, nextHandle, timerVars, now,
                       alertMsg, hist, events>>

(* setTimeout hands out ids that nothing else refers to; a timer that has  *)
(* fired or been cleared is only ever named by undoTimer.current.          *)
NewTimer == CHOOSE n \in 1..(Cardinality(timers) + 2) : n \notin timers \cup {undoTimer}

(* The setItem of line 140 is served; lines 141-142 start the undo timer.  *)
DeleteTaskSaved ==
    \E f \in frames, ok \in BOOLEAN :
        /\ f.op = "deleteTask"
        /\ SetItemServed(f, ok)
        /\ IF ok
           THEN /\ timers' = (timers \ {undoTimer}) \cup {NewTimer}
                /\ undoTimer' = NewTimer
                /\ undoWindow' = IF lastDelete = f.fid THEN "armed" ELSE undoWindow
           ELSE UNCHANGED <<timerVars, undoWindow>>
        /\ UNCHANGED <<tasks, formVars, deletedTask, viewVars, notifVars, now,
                       alertMsg, hist, lastDelete, events>>

UndoExpiry_KeepsHolder ==
    \E t \in timers :
        /\ timers' = timers \ {t}
        /\ Event("expiry")
        /\ undoWindow' = IF undoWindow = "armed" /\ t = undoTimer
                         THEN "expired" ELSE undoWindow
        /\ UNCHANGED <<tasks, formVars, deletedTask, undoTimer, viewVars,
                       storeVars, notifVars, now, frames, alertMsg, anyRejected,
                       lastDelete, events>>

(* The timer of line 142 fires after UndoDelayMs: setDeletedTask(null).    *)
UndoExpiry ==
    \E t \in timers :
        /\ timers' = timers \ {t}
        /\ deletedTask' = <<>>
        /\ Event("expiry")
        /\ undoWindow' = IF undoWindow = "armed" /\ t = undoTimer
                         THEN "expired" ELSE undoWindow
        /\ UNCHANGED <<tasks, formVars, undoTimer, viewVars, storeVars,
                       notifVars, now, frames, alertMsg, anyRejected, lastDelete,
                       events>>

----------------------------------------------------------------------------
(* undoDelete, lines 145-153 *)

UndoDelete ==
    /\ Called("undoDelete", Null)
    /\ IF deletedTask # <<>>
       THEN /\ CanCall
            /\ tasks' = deletedTask \o tasks
            /\ SaveTasks(FreshFid, "undoDelete", Null, deletedTask \o tasks)
       ELSE UNCHANGED <<tasks, frames, storeQueue>>
    /\ UNCHANGED <<formVars, deletedTask, viewVars, storage, notifVars,
                   timerVars, now, alertMsg, anyRejected, undoWindow, lastDelete>>

(* The setItem of line 149 is served; lines 150-151 follow. *)
UndoDeleteSaved ==
    \E f \in frames, ok \in BOOLEAN :
        /\ f.op = "undoDelete"
        /\ SetItemServed(f, ok)
        /\ IF ok
           THEN /\ deletedTask' = <<>>
                /\ timers' = timers \ {undoTimer}
           ELSE UNCHANGED <<deletedTask, timers>>
        /\ UNCHANGED <<tasks, formVars, undoTimer, viewVars, notifVars, now,
                       alertMsg, hist, undoWindow, lastDelete, events>>

----------------------------------------------------------------------------
(* displayedTasks, lines 162-178 *)

PriorityOrder(p) == CASE p = "High" -> 1 [] p = "Medium" -> 2 [] p = "Low" -> 3

(* the comparators of lines 170, 172 and 174: negative, zero or positive *)
Compare(sort, a, b) ==
    CASE sort = "priority" -> PriorityOrder(a.priority) - PriorityOrder(b.priority)
      [] sort = "completed" ->
            (IF a.completed THEN 1 ELSE 0) - (IF b.completed THEN 1 ELSE 0)
      [] sort = "reminder" -> a.reminderSeconds - b.reminderSeconds

(* Array.prototype.sort is stable: an element goes in after every element  *)
(* that does not compare greater than it.                                  *)
RECURSIVE InsertSorted_Unstable(_, _, _)
InsertSorted_Unstable(sort, sorted, t) ==
    IF sorted = <<>> THEN <<t>>
    ELSE IF Compare(sort, Head(sorted), t) >= 0 THEN <<t>> \o sorted
    ELSE <<Head(sorted)>> \o InsertSorted_Unstable(sort, Tail(sorted), t)

RECURSIVE InsertSorted(_, _, _)
InsertSorted(sort, sorted, t) ==
    IF sorted = <<>> THEN <<t>>
    ELSE IF Compare(sort, Head(sorted), t) > 0 THEN <<t>> \o sorted
    ELSE <<Head(sorted)>> \o InsertSorted(sort, Tail(sorted), t)

RECURSIVE SortBy(_, _)
SortBy(sort, list) ==
    IF list = <<>> THEN <<>>
    ELSE InsertSorted(sort, SortBy(sort, SubSeq(list, 1, Len(list) - 1)),
                      list[Len(list)])

(* The memo's body.  filtered is the tasks array itself under "All"; the   *)
(* sort works in place on a copy (line 168), so the array passed in is     *)
(* what it was.  The result names both the view and the array afterwards.  *)
DisplayedTasks(list, filter, sort) ==
    LET filtered == IF filter # "All"
                    THEN SelectSeq(list, LAMBDA t : t.priority = filter)
                    ELSE list
    IN  [sorted |-> SortBy(sort, filtered), tasks |-> list]

(* The sort and filter buttons, lines 240 and 261; the render that follows *)
(* evaluates the memo.                                                     *)
SetSortOption ==
    \E opt \in SortOptions :
        /\ opt # sortOption
        /\ sortOption' = opt
        /\ tasks' = DisplayedTasks(tasks, filterPriority, opt).tasks
        /\ UNCHANGED <<formVars, deletedTask, filterPriority, storeVars,
                       notifVars, timerVars, now, frames, alertMsg, hist,
                       anyRejected, undoWindow, lastDelete, events>>

SetFilterPriority ==
    \E p \in Filters :
        /\ p # filterPriority
        /\ filterPriority' = p
        /\ tasks' = DisplayedTasks(tasks, p, sortOption).tasks
        /\ UNCHANGED <<formVars, deletedTask, sortOption, storeVars,
                       notifVars, timerVars, now, frames, alertMsg, hist,
                       anyRejected, undoWindow, lastDelete, events>>

----------------------------------------------------------------------------
(* The screen *)

Next ==
    \/ LoadTasks
    \/ SetTaskText
    \/ SetPriority
    \/ SetReminderSeconds
    \/ StartEdit
    \/ AddOrUpdateTask
    \/ ScheduleNotification
    \/ AddOrUpdateTaskSaved
    \/ ToggleComplete
    \/ ToggleCompleteCancelled
    \/ ToggleCompleteSaved
    \/ DeleteTask
    \/ DeleteTaskCancelled
    \/ DeleteTaskSaved
    \/ UndoExpiry
    \/ UndoDelete
    \/ UndoDeleteSaved

Spec == Init /\ [][Next]_vars

----------------------------------------------------------------------------
(* The view on its own: the screen with a list already loaded and no       *)
(* handler in flight, and the sort and filter buttons.                     *)

MaxViewLen == 3       \* length of the lists the view is derived from

ViewTask(id, prio, done, secs) ==
    [id |-> id, text |-> <<"a">>, priority |-> prio, completed |-> done,
     reminderSeconds |-> secs, notificationId |-> Undefined]

(* lists as the handlers build them: newest first, ids descending *)
ViewLists ==
    UNION { { [i \in 1..n |-> ViewTask(n + 1 - i, p[i], c[i], r[i])] :
                p \in [1..n -> Priorities], c \in [1..n -> BOOLEAN],
                r \in [1..n -> ReminderInputs] } : n \in 0..MaxViewLen }

ViewInit ==
    /\ tasks \in ViewLists
    /\ taskText = <<>>
    /\ priority = "Medium"
    /\ reminderSeconds = DefaultReminder
    /\ editingId = Null
    /\ deletedTask = <<>>
    /\ undoTimer = Null
    /\ sortOption = "priority"
    /\ filterPriority = "All"
    /\ storage = <<Stringify(tasks)>>
    /\ storeQueue = <<>>
    /\ scheduled = {}
    /\ nextHandle = 1
    /\ timers = {}
    /\ now = MaxViewLen + 1
    /\ frames = {}
    /\ alertMsg = ""
    /\ hist = <<>>
    /\ anyRejected = FALSE
    /\ undoWindow = "none"
    /\ lastDelete = Null
    /\ events = 0

ViewNext ==
    \/ SetSortOption
    \/ SetFilterPriority

SpecView == ViewInit /\ [][ViewNext]_vars

----------------------------------------------------------------------------
(* Properties *)

Quiescent == frames = {}
LastOp(op) == Len(hist) > 0 /\ hist[Len(hist)].op = op
Pair(op1, op2) == Len(hist) = 2 /\ hist[1].op = op1 /\ hist[2].op = op2

SameFields(a, b) ==
    /\ a.id = b.id
    /\ a.text = b.text
    /\ a.priority = b.priority
    /\ a.completed = b.completed
    /\ a.reminderSeconds = b.reminderSeconds

(* C1: in every reachable state the in-memory list holds at most one task  *)
(* per id.                                                                 *)
C1_OneTaskPerId ==
    \A i, j \in 1..Len(tasks) : tasks[i].id = tasks[j].id => i = j

(* C2: once every mutating operation called so far has resolved and no     *)
(* handler is in flight, the stored list equals the in-memory list: same   *)
(* tasks, same order, same fields.                                         *)
C2_StoreMirrorsList ==
    (Quiescent /\ ~anyRejected) =>
        tasks = IF storage = <<>> THEN <<>> ELSE Parse(storage[1])

(* C3: delete(id), called with no handler in flight, followed immediately  *)
(* by undoDelete() while a task is held, both resolved, gives a list whose *)
(* first task has the id, text, priority, completed and reminderSeconds of *)
(* the deleted one, followed by the other tasks of the list as it was, in  *)
(* their order.                                                            *)
C3_DeleteThenUndo ==
    (/\ Pair("deleteTask", "undoDelete")
     /\ hist[1].alone
     /\ hist[2].held # <<>>
     /\ Quiescent
     /\ ~anyRejected) =>
        LET L == hist[1].pre
            t == Find(L, hist[1].id)[1]
        IN  /\ tasks # <<>>
            /\ SameFields(tasks[1], t)
            /\ Tail(tasks) = FilterOut(L, hist[1].id)

(* C4: a create with a text that is not empty after trimming prepends one  *)
(* new task to the list: its text (trimmed), priority and reminderSeconds  *)
(* are the inputs, completed is false, its id is the id of no task already *)
(* in the list, and the tasks that were in the list stay, unchanged, in    *)
(* their order.                                                            *)
C4_CreatePrepends ==
    [][ /\ (AddOrUpdateTask /\ editingId = Null /\ Trim(taskText) # <<>>) =>
              \E f \in frames' \ frames :
                  /\ f.task[1].text = Trim(taskText)
                  /\ f.task[1].priority = priority
                  /\ f.task[1].reminderSeconds = reminderSeconds
        /\ \A f \in frames \ frames' :
              (f.op = "create" /\ f.pc = "scheduleNotification") =>
                  /\ Len(tasks') = Len(tasks) + 1
                  /\ Tail(tasks') = tasks
                  /\ SameFields(tasks'[1], f.task[1])
                  /\ ~tasks'[1].completed
                  /\ tasks'[1].id \notin Ids(tasks)
      ]_vars

(* C5: a create or update whose text is empty after trimming is rejected   *)
(* with the EmptyText alert and leaves the list, the store, the editing    *)
(* state and the scheduled reminders as they were.                         *)
C5_EmptyTextRejected ==
    [][ (AddOrUpdateTask /\ Trim(taskText) = <<>>) =>
            /\ alertMsg' = EmptyTextAlert
            /\ UNCHANGED <<tasks, storage, storeQueue, frames, editingId,
                           taskText, priority, reminderSeconds, scheduled>>
      ]_vars

(* C5 witness: addOrUpdateTask was called on a text of blanks and the alert *)
(* has been shown.                                                         *)
C5_Witness ==
    /\ alertMsg = EmptyTextAlert
    /\ LastOp("addOrUpdateTask")
    /\ taskText # <<>>
    /\ Trim(taskText) = <<>>

C7_HandleOnlyWhileIncomplete ==
    \A i \in 1..Len(tasks) :
        tasks[i].notificationId # Undefined =>
            /\ ~tasks[i].completed
            /\ tasks[i].notificationId \in 1..(nextHandle - 1)

(* C7 witness: a task that had a handle has been completed, next to a task *)
(* that carries one.                                                       *)
C7_Witness ==
    /\ \E i \in 1..Len(tasks) :
          /\ tasks[i].id = StoredList[2].id
          /\ tasks[i].completed
          /\ tasks[i].notificationId = Undefined
    /\ \E i \in 1..Len(tasks) : tasks[i].notificationId # Undefined

(* C8: a task of the list carries a handle only while a reminder with that *)
(* handle is scheduled and not cancelled; a task put back by undoDelete    *)
(* after its reminder was cancelled carries none.                          *)
C8_HandleIsScheduled ==
    \A i \in 1..Len(tasks) :
        tasks[i].notificationId # Undefined =>
            tasks[i].notificationId \in scheduled

(* C9: once the timer of the latest delete has fired, and until another    *)
(* delete removes a task, the holder is empty and undoDelete changes       *)
(* neither the list, the store nor the holder.                             *)
C9_UndoAfterExpiry ==
    [][ undoWindow = "expired" =>
            /\ deletedTask = <<>>
            /\ UndoDelete =>
                  UNCHANGED <<tasks, storage, storeQueue, deletedTask, frames>>
      ]_vars

(* C9 witness: undoDelete was called right after the expiry of the latest  *)
(* delete's timer.                                                         *)
C9_Witness ==
    /\ undoWindow = "expired"
    /\ Pair("expiry", "undoDelete")

(* C10: the view is the stored tasks the filter keeps, ascending by the    *)
(* sort key, tasks of equal key in their stored order; deriving it leaves  *)
(* the stored list as it is.                                               *)
View == DisplayedTasks(tasks, filterPriority, sortOption).sorted
Kept == {i \in 1..Len(tasks) :
            filterPriority = "All" \/ tasks[i].priority = filterPriority}
Key(t) ==
    CASE sortOption = "priority" ->
            (CASE t.priority = "High" -> 0 [] t.priority = "Medium" -> 1
               [] t.priority = "Low" -> 2)
      [] sortOption = "completed" -> (IF t.completed THEN 1 ELSE 0)
      [] sortOption = "reminder" -> t.reminderSeconds
Before(j, i) ==
    \/ Key(tasks[j]) < Key(tasks[i])
    \/ Key(tasks[j]) = Key(tasks[i]) /\ j < i
Rank(i) == Cardinality({j \in Kept : Before(j, i)})

C10_DerivedView ==
    /\ [](/\ Len(View) = Cardinality(Kept)
          /\ \A i \in Kept : View[Rank(i) + 1] = tasks[i])
    /\ [][tasks' = tasks]_vars

(* C10 witness: under the High filter a task is left out, and of the two   *)
(* kept the one stored later has the smaller key and comes first.          *)
C10_Witness ==
    /\ filterPriority = "High"
    /\ sortOption = "reminder"
    /\ Len(tasks) = 3
    /\ Len(View) = 2
    /\ \E i, j \in Kept :
          /\ i < j
          /\ Key(tasks[j]) < Key(tasks[i])
          /\ View = <<tasks[j], tasks[i]>>

----------------------------------------------------------------------------
(* C11: an update whose id is on no task of the list fails (NotFound): it  *)
(* changes no task, asks for no save, and does not go on as an edit that   *)
(* succeeded.                                                              *)
C11_UpdateNotFound ==
    [][(/\ AddOrUpdateTask
        /\ editingId # Null
        /\ ~IsEmptyText(taskText)
        /\ editingId \notin Ids(tasks))
       => UNCHANGED <<tasks, frames, storeQueue>>]_vars

(* C12: mutation handlers do not interleave, so no update is lost: when a  *)
(* toggle or delete is called with nothing in flight, a second toggle or   *)
(* delete follows it, and both have resolved, the list is the one obtained *)
(* by applying the two to the list of the first call, one at a time in the *)
(* order they were called.                                                 *)
SerialEffect(e, list) ==
    CASE e.op = "toggleComplete" -> Toggled(list, e.id)
      [] e.op = "deleteTask" -> FilterOut(list, e.id)
      [] OTHER -> list

C12_NoLostUpdate ==
    (/\ Len(hist) = 2
     /\ \A k \in 1..2 : hist[k].op \in {"toggleComplete", "deleteTask"}
     /\ hist[1].alone
     /\ Quiescent
     /\ ~anyRejected)
    => tasks = SerialEffect(hist[2], SerialEffect(hist[1], hist[1].pre))

(* C13: at most one expiry timer is outstanding, and a timer never fires   *)
(* on a holder filled by a later delete: when a timer fires on an occupied *)
(* holder, it is the timer started by the delete that filled the holder.   *)
C13_ExpiryOfOwnDelete ==
    /\ [](Cardinality(timers) <= 1)
    /\ [][(UndoExpiry /\ deletedTask # <<>>)
          => (undoWindow = "armed" /\ timers = {undoTimer})]_vars

(* C14: after a delete that removed a task the holder becomes empty again  *)
(* without the user doing anything, also when a save or cancel of the      *)
(* delete failed: once no handler is in flight, an occupied holder has an  *)
(* expiry timer outstanding that will empty it.                            *)
C14_HolderExpires ==
    (Quiescent /\ deletedTask # <<>>) => timers # {}

(* C15: a cancel that fails does not stop the mutation: when the cancel    *)
(* awaited by toggleComplete ends, either way, the task's completed flag   *)
(* is flipped and its handle cleared; when the cancel awaited by deleteTask*)
(* ends, either way, the task leaves the list and is in the holder.        *)
CancelEnded(f) ==
    /\ f \in frames
    /\ f.pc = "cancel"
    /\ \A g \in frames' : g.fid = f.fid => g.pc # "cancel"

C15_CancelFailureIsNotFatal ==
    [][\A f \in frames : CancelEnded(f) =>
          IF f.op = "toggleComplete"
          THEN \E i \in 1..Len(tasks') :
                  /\ tasks'[i].id = f.id
                  /\ tasks'[i].completed = ~Find(f.tasks, f.id)[1].completed
                  /\ tasks'[i].notificationId = Undefined
          ELSE /\ f.id \notin Ids(tasks')
               /\ deletedTask' = f.task]_vars

(* C16: when the schedule request of a create fails, the task is still     *)
(* created: it is put, with the fields built at the call and no handle, in *)
(* front of the list of the call, no reminder is scheduled, and a save of  *)
(* the new list is requested.                                              *)
ScheduleFailed(f) ==
    /\ f \in frames
    /\ f.op = "create"
    /\ f.pc = "scheduleNotification"
    /\ \A g \in frames' : g.fid = f.fid => g.pc # "scheduleNotification"
    /\ nextHandle' = nextHandle

C16_CreateSurvivesScheduleFailure ==
    [][\A f \in frames : ScheduleFailed(f) =>
          /\ tasks' = f.task \o f.tasks
          /\ tasks'[1].notificationId = Undefined
          /\ scheduled' = scheduled
          /\ storeQueue' = Append(storeQueue, f.fid)
          /\ \E g \in frames' :
                /\ g.fid = f.fid
                /\ g.pc = "setItem"
                /\ Parse(g.json) = tasks']_vars

(* C16 witness: no handle was ever issued, and a task created in this run  *)
(* is in the list and in the store, without a handle.                      *)
C16_Witness ==
    /\ nextHandle = 2
    /\ storage # <<>>
    /\ \E i \in 1..Len(tasks) :
          /\ tasks[i].id >= StartNow
          /\ tasks[i].notificationId = Undefined
          /\ \E j \in 1..Len(Parse(storage[1])) : Parse(storage[1])[j] = tasks[i]

(* C17: a save that fails does not stop the rest of the operation: when    *)
(* the setItem awaited by a mutation ends, either way, the list in memory  *)
(* is kept, an update has cleared the editing id, a delete has its expiry  *)
(* timer running, and an undo has emptied the holder and cleared the timer.*)
SaveEnded(f) ==
    /\ f \in frames
    /\ f.pc = "setItem"
    /\ f \notin frames'

C17_SaveFailureIsNotFatal ==
    [][\A f \in frames : SaveEnded(f) =>
          /\ tasks' = tasks
          /\ f.op = "update" => editingId' = Null
          /\ f.op = "deleteTask" => (undoTimer' \in timers' /\ undoTimer' # undoTimer)
          /\ f.op = "undoDelete" => (deletedTask' = <<>> /\ undoTimer \notin timers')]_vars

(* C18: an update of a task that is in the list replaces that task's text, *)
(* priority and reminderSeconds and nothing else: its id, completed flag   *)
(* and handle, every other task, the order of the list and the scheduled   *)
(* reminders stay as they were; and the update clears the editing id.      *)
C18_UpdateFrame ==
    /\ [][(/\ AddOrUpdateTask
           /\ editingId \in Ids(tasks)
           /\ ~IsEmptyText(taskText))
          => /\ Len(tasks') = Len(tasks)
             /\ \A i \in 1..Len(tasks) :
                   IF tasks[i].id = editingId
                   THEN tasks'[i] = [id |-> tasks[i].id,
                                     text |-> taskText,
                                     priority |-> priority,
                                     completed |-> tasks[i].completed,
                                     reminderSeconds |-> reminderSeconds,
                                     notificationId |-> tasks[i].notificationId]
                   ELSE tasks'[i] = tasks[i]
             /\ UNCHANGED notifVars]_vars
    /\ [][\A f \in frames : (SaveEnded(f) /\ f.op = "update")
             => editingId' = Null]_vars

(* C19: the load at startup loses nothing: when a create is called while   *)
(* the load is still in flight and both have resolved, the new task and    *)
(* the tasks the store held at startup are all in the list and all in the  *)
(* store.  The create is the only call so far, so the reminder of the      *)
(* stored task 1 is scheduled exactly when the store held StoredList.      *)
CreatedDuringLoad ==
    /\ Len(hist) = 1
    /\ hist[1].op = "addOrUpdateTask"
    /\ hist[1].id = Null
    /\ ~hist[1].alone
    /\ now > StartNow

AtStartup == IF 1 \in scheduled THEN Ids(StoredList) ELSE {}

C19_LoadLosesNothing ==
    (CreatedDuringLoad /\ Quiescent /\ ~anyRejected) =>
        /\ storage # <<>>
        /\ \A list \in {tasks, Parse(storage[1])} :
              /\ AtStartup \subseteq Ids(list)
              /\ \E i \in 1..Len(list) : list[i].id >= StartNow

(* C20: no orphan reminders: when no handler is in flight, every reminder  *)
(* that is scheduled and not cancelled belongs to a task that is in the    *)
(* list, is not completed and carries that reminder's handle.              *)
C20_NoOrphanReminder ==
    (Quiescent /\ ~anyRejected) =>
        \A h \in scheduled :
            \E i \in 1..Len(tasks) :
                /\ tasks[i].notificationId = h
                /\ ~tasks[i].completed

====
